---- MODULE Spec2Model ----
(***************************************************************************)
(* A model of src/content.js: the IndexedDB cache (IndexedDBManager), the  *)
(* response validator (validateApiResponse) and the fetch pipeline         *)
(* (getImmersionKitData).                                                  *)
(*                                                                         *)
(* JavaScript values are modelled as records of a fixed shape per kind of  *)
(* value, so that any two values of one kind can be compared:              *)
(*   payload  [kind, hasData, isArray, data]                               *)
(*                                       kind "null" is null/undefined,    *)
(*                                       hasData is the truthiness of .data*)
(*                                       isArray is Array.isArray(.data);  *)
(*                                       data[1] is .data[0]               *)
(*   result   [category_count, examples, extra]                            *)
(*   category_count [present, counts]    counts = Object.values(...)       *)
(*   examples [kind, items]              kind "undefined", "string" (a     *)
(*                                       truthy non-array) or "array"      *)
(*   example  [image_url, sound_url, sentence, translation, deck_name,     *)
(*             extra]                    extra = the names of other fields *)
(* Strings that the code splits or wraps (vocab, search keys, preference   *)
(* records) are sequences of one-character strings.                        *)
(***************************************************************************)
EXTENDS Integers, Sequences, FiniteSets, TLC

\* ------------------------------------------------------------------ bounds
\* Number of concurrent asynchronous flows (calls in flight on the event loop).
NumProcs == 2
\* Date.now() returns values in 0..MaxTime.
MaxTime == 3
\* Total number of top-level calls started in one behaviour.
MaxCalls == 2

\* ------------------------------------------------- program constants (scaled)
\* IndexedDBManager.MAX_ENTRIES is 100000000 in the source; the model keeps the
\* comparison entries.length >= MAX_ENTRIES and scales the value so that a
\* store can be filled.
MAX_ENTRIES == 2
\* IndexedDBManager.EXPIRATION_TIME is 10000 years of milliseconds in the
\* source; the model counts time in units of EXPIRATION_TIME / 2.
EXPIRATION_TIME == 2
\* const maxRetries = 5 in getImmersionKitData.
maxRetries == 5

Procs == 1..NumProcs
Times == 0..MaxTime

\* ------------------------------------------------------------- JSON values
NoError == "null"

NullPayload == [kind |-> "null", hasData |-> FALSE, isArray |-> FALSE, data |-> <<>>]
ObjPayload(results) == [kind |-> "object", hasData |-> TRUE, isArray |-> TRUE, data |-> results]
\* {} : an object without a data field.
EmptyObjPayload == [kind |-> "object", hasData |-> FALSE, isArray |-> FALSE, data |-> <<>>]

NoCount == [present |-> FALSE, counts |-> <<>>]
Count(c) == [present |-> TRUE, counts |-> c]

NoExamples == [kind |-> "undefined", items |-> <<>>]
StringExamples == [kind |-> "string", items |-> <<>>]
ArrayExamples(s) == [kind |-> "array", items |-> s]

Ex1 == [image_url |-> "i1", sound_url |-> "s1", sentence |-> "x",
        translation |-> "t1", deck_name |-> "d1", extra |-> <<"id">>]
Ex2 == [image_url |-> "i2", sound_url |-> "s2", sentence |-> "y",
        translation |-> "t2", deck_name |-> "d2", extra |-> <<"id">>]

\* The sentence of Ex2 in another example.
Ex3 == [image_url |-> "i3", sound_url |-> "s3", sentence |-> "y",
        translation |-> "t3", deck_name |-> "d3", extra |-> <<"id">>]

Result(cc, exs) == [category_count |-> cc, examples |-> exs, extra |-> <<"exact_match">>]

\* Remote responses and save arguments: one payload per branch of the
\* validator and of the slimming code.
GoodPayload == ObjPayload(<<Result(Count(<<0, 1>>), ArrayExamples(<<Ex1, Ex2>>)),
                            Result(NoCount, ArrayExamples(<<Ex2>>))>>)
NoExamplePayload == ObjPayload(<<Result(Count(<<1>>), ArrayExamples(<<>>))>>)
StringExamplesPayload == ObjPayload(<<Result(Count(<<1>>), StringExamples)>>)
BlankPayload == ObjPayload(<<Result(Count(<<0, 0>>), ArrayExamples(<<Ex1>>))>>)
EmptyCountPayload == ObjPayload(<<Result(Count(<<>>), ArrayExamples(<<Ex1>>))>>)
NoCountPayload == ObjPayload(<<Result(NoCount, ArrayExamples(<<Ex1>>))>>)
NoExamplesFieldPayload == ObjPayload(<<Result(Count(<<1>>), NoExamples)>>)
NoResultsPayload == ObjPayload(<<>>)
\* {data: {0: {...}}} : data is an object with a property "0", not an array.
ObjectDataPayload ==
  [ObjPayload(<<Result(Count(<<1>>), ArrayExamples(<<Ex1>>))>>) EXCEPT !.isArray = FALSE]

Payloads == {NullPayload, EmptyObjPayload, NoResultsPayload, NoExamplesFieldPayload,
             NoCountPayload, EmptyCountPayload, BlankPayload,
             GoodPayload, NoExamplePayload, StringExamplesPayload, ObjectDataPayload}

\* ---------------------------------------------------------------- validator
\* Mutant: the category count is checked before the required fields.
validateApiResponse_CountFirst(jsonData) ==
  IF jsonData.kind = "null" THEN "Not a valid JSON"
  ELSE IF jsonData.hasData /\ Len(jsonData.data) > 0
          /\ ~jsonData.data[1].category_count.present
       THEN "Missing category count"
  ELSE IF ~jsonData.hasData \/ Len(jsonData.data) = 0
          \/ jsonData.data[1].examples.kind = "undefined"
       THEN "Missing required data fields"
  ELSE IF \A i \in 1..Len(jsonData.data[1].category_count.counts) :
            jsonData.data[1].category_count.counts[i] = 0
       THEN "Blank API"
  ELSE NoError

\* The reason validateApiResponse returns (NoError for null).  The assignment
\* state.error = false that the function makes is part of every action that
\* calls it.
validateApiResponse(jsonData) ==
  IF jsonData.kind = "null" THEN "Not a valid JSON"
  ELSE IF ~jsonData.hasData \/ Len(jsonData.data) = 0
          \/ jsonData.data[1].examples.kind = "undefined"
       THEN "Missing required data fields"
  ELSE LET categoryCount == jsonData.data[1].category_count IN
       IF ~categoryCount.present THEN "Missing category count"
       ELSE IF \A i \in 1..Len(categoryCount.counts) : categoryCount.counts[i] = 0
            THEN "Blank API"
       ELSE NoError

\* ------------------------------------------------------------------ slimming
SlimExample(example) ==
  [image_url |-> example.image_url, sound_url |-> example.sound_url,
   sentence |-> example.sentence, translation |-> example.translation,
   deck_name |-> example.deck_name, extra |-> <<>>]

SlimExamples(examples) ==
  IF examples.kind = "array"
  THEN ArrayExamples([i \in 1..Len(examples.items) |-> SlimExample(examples.items[i])])
  ELSE NoExamples

SlimItem(item) ==
  [category_count |-> IF item.category_count.present THEN item.category_count ELSE NoCount,
   examples |-> SlimExamples(item.examples),
   extra |-> <<>>]

\* data.data.map(...) of save; only called when data && data.data holds.
SlimData(data) == ObjPayload([i \in 1..Len(data.data) |-> SlimItem(data.data[i])])

\* data && data.data
HasDataField(data) == data.kind # "null" /\ data.hasData

\* ------------------------------------------------------------------ strings
Vocabs == {<<"a">>, <<"b">>}

\* const searchVocab = exactSearch ? `\u300c${vocab}\u300d` : vocab
SearchKey(vocab, exactSearch) ==
  IF exactSearch THEN <<"[">> \o vocab \o <<"]">> ELSE vocab

Keys == {SearchKey(v, e) : v \in Vocabs, e \in BOOLEAN}

\* String.prototype.split(",") : the fields between the commas.
RECURSIVE SplitFrom(_, _, _)
SplitFrom(s, i, cur) ==
  IF i > Len(s) THEN <<cur>>
  ELSE IF s[i] = "," THEN <<cur>> \o SplitFrom(s, i + 1, <<>>)
  ELSE SplitFrom(s, i + 1, Append(cur, s[i]))

Split(s) == SplitFrom(s, 1, <<>>)

Digits == {"0", "1", "2", "3", "4", "5", "6", "7", "8", "9"}
DigitVal(c) == CHOOSE n \in 0..9 : <<"0", "1", "2", "3", "4", "5", "6", "7", "8", "9">>[n + 1] = c

\* parseInt(s, 10): leading white space is skipped, an optional sign is read,
\* then the longest run of digits; NaN when there is none.
RECURSIVE SkipSpace(_, _)
SkipSpace(s, i) == IF i <= Len(s) /\ s[i] = " " THEN SkipSpace(s, i + 1) ELSE i

RECURSIVE DigitsFrom(_, _, _)
DigitsFrom(s, i, acc) ==
  IF i <= Len(s) /\ s[i] \in Digits
  THEN DigitsFrom(s, i + 1, 10 * acc + DigitVal(s[i]))
  ELSE acc

parseInt(s) ==
  LET i == SkipSpace(s, 1)
      neg == i <= Len(s) /\ s[i] = "-"
      j == IF i <= Len(s) /\ s[i] \in {"-", "+"} THEN i + 1 ELSE i
  IN IF j <= Len(s) /\ s[j] \in Digits
     THEN [nan |-> FALSE, val |-> IF neg THEN 0 - DigitsFrom(s, j, 0) ELSE DigitsFrom(s, j, 0)]
     ELSE [nan |-> TRUE, val |-> 0]

\* A value of chrome.storage.local: undefined, or a string.
NoPref == [present |-> FALSE, value |-> <<>>]
Pref(s) == [present |-> TRUE, value |-> s]

PrefValues == {NoPref,
               Pref(<<"x", ",", "2">>),            \* "x,2"
               Pref(<<"x", ",", "0">>),            \* "x,0"
               Pref(<<"x", ",", " ", "2", "a">>),  \* "x, 2a"
               Pref(<<"x", ",", "y", ",", "2">>)}  \* "x,y,2"

\* Mutant: the flag is compared as a string (=== "2").
IsBlacklisted_Strict(storedValue) ==
  /\ storedValue.present
  /\ Len(Split(storedValue.value)) > 1
  /\ Split(storedValue.value)[2] = <<"2">>

\* storedValue && storedValue.split(",").length > 1 &&
\*   parseInt(storedValue.split(",")[1], 10) === 2
IsBlacklisted(storedValue) ==
  /\ storedValue.present
  /\ Len(storedValue.value) > 0
  /\ Len(Split(storedValue.value)) > 1
  /\ LET n == parseInt(Split(storedValue.value)[2]) IN ~n.nan /\ n.val = 2

\* -------------------------------------------------------------------- state
VARIABLES
  store,    \* the object store "dataStore": keyword -> [data, timestamp, source]
            \* (source is history: the payload save was called with)
  now,      \* the last value Date.now() returned
  state,    \* the state object: examples, apiDataFetched, vocab, exactSearch, error,
            \* currentExampleIndex (examplesOf is history; leftDisabled and
            \* rightDisabled are the disabled properties of the arrow buttons
            \* on the page, TRUE while there are none), currentAudio,
            \* currentlyPlayingAudio (playing is the set of audio sources
            \* that have been started and have neither ended nor been stopped)
  prefs,    \* chrome.storage.local: vocab -> preference record
  pc,       \* per flow: where its pending request or timer stands
  call,     \* per flow: the call in progress and its arguments
  loc,      \* per flow: the locals of the call in progress
  res,      \* per flow: how the last call settled
  cnt,      \* per flow, history: requests issued by the call in progress
  ncalls,   \* history: number of calls started
  nprefs,   \* history: number of preference writes
  putLog,   \* history: puts = <<keyword, timestamp>> of the first MAX_ENTRIES + 1 puts
            \* completed, more = the store was changed otherwise
  overlap   \* history: two saves were in progress at the same time

vars == <<store, now, state, prefs, pc, call, loc, res, cnt, ncalls, nprefs, putLog, overlap>>

\* Total number of direct calls of the store in one behaviour.
MaxStoreCalls == 3
\* Maximum number of preference writes in one behaviour.
MaxPrefWrites == 1

NoKey == <<>>
\* occurrenceIndex as parseInt returns it.
NoIndex == [nan |-> TRUE, val |-> 0]
Index(i) == [nan |-> FALSE, val |-> i]
\* null, or an example: a sequence of at most one example.
NoExample == <<>>
\* sentence and index are the arguments of findExampleBySentence, data the
\* payload passed or received; page is where onPageLoad stands ("none" outside
\* a page load) and favoriteExample its local.
\* source names the audio source playAudio creates.
NoCall == [op |-> "none", keyword |-> NoKey, vocab |-> NoKey, exactSearch |-> FALSE,
           data |-> NullPayload, sentence |-> NoKey, index |-> NoIndex,
           page |-> "none", favoriteExample |-> NoExample, source |-> 0]
\* alone is history: no other save has been in progress since this flow's
\* save began.
NoLoc == [attempt |-> 0, slimData |-> NullPayload, toDelete |-> {}, timestamp |-> 0,
          alone |-> TRUE]
\* opens, reads (get, getAll), puts, deletes (deleteEntry) and remote fetches issued.
NoCnt == [opens |-> 0, reads |-> 0, puts |-> 0, deletes |-> 0, fetches |-> 0]
\* status: "none" (pending), "resolved" or "rejected"; value is what a get
\* resolved with (null when has is FALSE); why names the branch taken;
\* examples is what a lookup assigned to state.examples (kind "undefined"
\* when it assigned nothing); error and reason describe a rejection.
\* found is what findExampleBySentence returned.
NoRes == [status |-> "none", has |-> FALSE, value |-> NullPayload, why |-> "",
          examples |-> NoExamples, error |-> "", reason |-> "", found |-> NoExample]

\* state.currentAudio = null; an audio source is named by the number of the
\* handler that created it.
NoSource == 0

\* History kept in state.examplesOf: the arguments of the lookup that assigned
\* state.examples.
NoOrigin == [vocab |-> NoKey, exactSearch |-> FALSE]
Origin(p) == [vocab |-> call[p].vocab, exactSearch |-> call[p].exactSearch]

Init ==
  /\ store = <<>>
  /\ now = 0
  /\ state = [examples |-> ArrayExamples(<<>>), apiDataFetched |-> FALSE,
              vocab |-> CHOOSE v \in Vocabs : TRUE, exactSearch |-> FALSE, error |-> FALSE,
              currentExampleIndex |-> 0, examplesOf |-> NoOrigin,
              leftDisabled |-> TRUE, rightDisabled |-> TRUE,
              currentAudio |-> NoSource, currentlyPlayingAudio |-> FALSE,
              playing |-> {}]
  /\ prefs = [v \in Vocabs |-> NoPref]
  /\ pc = [p \in Procs |-> "idle"]
  /\ call = [p \in Procs |-> NoCall]
  /\ loc = [p \in Procs |-> NoLoc]
  /\ res = [p \in Procs |-> NoRes]
  /\ cnt = [p \in Procs |-> NoCnt]
  /\ ncalls = 0
  /\ nprefs = 0
  /\ putLog = [puts |-> <<>>, more |-> FALSE]
  /\ overlap = FALSE

\* A flow has nothing pending: no request, no timer, and no onPageLoad waiting
\* for its lookup to settle.
Free(p) == pc[p] \in {"idle", "done"} /\ call[p].page # "lookup"
InSave(p) == pc[p] \in {"saveGetAll", "savePut"}

\* What Date.now() may return: the clock does not run backwards.
ClockReads == now..MaxTime

\* The rows of the store without the given keywords.
Without(st, ks) == [k \in (DOMAIN st) \ ks |-> st[k]]
\* store.put(row): the row replaces any row of the same keyword.
Put(st, k, row) == [x \in (DOMAIN st) \cup {k} |-> IF x = k THEN row ELSE st[x]]

\* ------------------------------------------------- IndexedDBManager.save
\* Mutant: save does not stop at a validation error.
SaveRejects_NoCheck(data) == FALSE

\* if (validationError) { resolve(); return; }
SaveRejects(data) == validateApiResponse(data) # NoError

\* data.data.map is not a function: the TypeError is caught and save rejects.
SaveThrows(data) == ~SaveRejects(data) /\ HasDataField(data) /\ ~data.isArray

SaveError == "Error in saveToIndexedDB"

\* The synchronous part of save(db, keyword, data), up to the call of getAll.
\* r and c are the flow's result and request counts before the call.
SaveEnter(p, data, r, c) ==
  IF SaveRejects(data) \/ ~HasDataField(data)
  THEN /\ pc' = [pc EXCEPT ![p] = "done"]
       /\ res' = [res EXCEPT ![p] = [r EXCEPT !.status = "resolved", !.why = "not saved"]]
       /\ loc' = [loc EXCEPT ![p] = NoLoc]
       /\ cnt' = [cnt EXCEPT ![p] = c]
       /\ overlap' = overlap
  ELSE IF SaveThrows(data)
  THEN /\ pc' = [pc EXCEPT ![p] = "done"]
       /\ res' = [res EXCEPT ![p] = [r EXCEPT !.status = "rejected", !.error = SaveError]]
       /\ loc' = [loc EXCEPT ![p] = NoLoc]
       /\ cnt' = [cnt EXCEPT ![p] = c]
       /\ overlap' = overlap
  ELSE /\ pc' = [pc EXCEPT ![p] = "saveGetAll"]
       /\ res' = [res EXCEPT ![p] = r]
       /\ loc' = [q \in Procs |->
                   IF q = p
                   THEN [loc[p] EXCEPT !.slimData = SlimData(data),
                                       !.alone = \A o \in Procs \ {p} : ~InSave(o)]
                   ELSE IF InSave(q) THEN [loc[q] EXCEPT !.alone = FALSE] ELSE loc[q]]
       /\ cnt' = [cnt EXCEPT ![p] = [c EXCEPT !.reads = @ + 1]]
       /\ overlap' = (overlap \/ \E q \in Procs \ {p} : InSave(q))

\* Mutant: nothing is evicted.
EvictSets_Never(entries) == {{}}

\* Mutant: the slice is one short (entries.length - MAX_ENTRIES).
EvictSets_OneShort(entries) ==
  IF Cardinality(DOMAIN entries) >= MAX_ENTRIES
  THEN {S \in SUBSET (DOMAIN entries) :
          /\ Cardinality(S) = Cardinality(DOMAIN entries) - MAX_ENTRIES
          /\ \A a \in S, b \in (DOMAIN entries) \ S :
               entries[a].timestamp <= entries[b].timestamp}
  ELSE {{}}

\* entries.sort(by timestamp); entries.slice(0, entries.length - MAX_ENTRIES + 1):
\* the sets of keywords the slice may hold (rows of equal timestamp keep their
\* cursor order in the source; the model allows either).
EvictSets(entries) ==
  IF Cardinality(DOMAIN entries) >= MAX_ENTRIES
  THEN {S \in SUBSET (DOMAIN entries) :
          /\ Cardinality(S) = Cardinality(DOMAIN entries) - MAX_ENTRIES + 1
          /\ \A a \in S, b \in (DOMAIN entries) \ S :
               entries[a].timestamp <= entries[b].timestamp}
  ELSE {{}}

\* getAll resolves: the entries are counted and sorted, the deletes and the
\* put are placed in one readwrite transaction, with timestamp Date.now().
SaveGetAll(p) ==
  /\ pc[p] = "saveGetAll"
  /\ \E S \in EvictSets(store), dateNow \in ClockReads :
       /\ loc' = [loc EXCEPT ![p].toDelete = S, ![p].timestamp = dateNow]
       /\ now' = dateNow
  /\ pc' = [pc EXCEPT ![p] = "savePut"]
  /\ cnt' = [cnt EXCEPT ![p].puts = @ + 1]
  /\ UNCHANGED <<store, state, prefs, call, res, ncalls, nprefs, putLog, overlap>>

\* The readwrite transaction runs: the deletes, then the put; save resolves.
SavePut(p) ==
  /\ pc[p] = "savePut"
  /\ store' = Put(Without(store, loc[p].toDelete), call[p].keyword,
                  [data |-> loc[p].slimData, timestamp |-> loc[p].timestamp,
                   source |-> call[p].data])
  /\ putLog' = IF Len(putLog.puts) <= MAX_ENTRIES
               THEN [putLog EXCEPT !.puts = Append(@, <<call[p].keyword, loc[p].timestamp>>)]
               ELSE [putLog EXCEPT !.more = TRUE]
  /\ pc' = [pc EXCEPT ![p] = "done"]
  /\ res' = [res EXCEPT ![p] = [@ EXCEPT !.status = "resolved", !.why = "saved"]]
  /\ loc' = [loc EXCEPT ![p] = NoLoc]
  /\ UNCHANGED <<now, state, prefs, call, cnt, ncalls, nprefs, overlap>>

\* -------------------------------------------------- IndexedDBManager.get
\* Mutant: the boundary is off by one (> for >=).
IsExpired_Strict(dateNow, timestamp) == dateNow - timestamp > EXPIRATION_TIME

\* Date.now() - result.timestamp >= this.EXPIRATION_TIME
IsExpired(dateNow, timestamp) == dateNow - timestamp >= EXPIRATION_TIME

\* Mutant: get does not validate the stored payload.
NeedsDelete_ExpiryOnly(dateNow, result) == IsExpired(dateNow, result.timestamp)

\* if (isExpired) ... else if (validationError) ...: the row is deleted.
NeedsDelete(dateNow, result) ==
  IsExpired(dateNow, result.timestamp) \/ validateApiResponse(result.data) # NoError

\* Mutant: the cached data is never used.
IsHit_Never(has, cachedData) == FALSE

\* cachedData && Array.isArray(cachedData.data) && cachedData.data.length > 0
IsHit(has, cachedData) ==
  has /\ HasDataField(cachedData) /\ cachedData.isArray /\ Len(cachedData.data) > 0

\* get has resolved with cachedData (null when has is FALSE).  A direct call
\* of get is settled; fetchData goes on: a hit is assigned to state.examples
\* and the lookup returns, a miss calls fetch(url).  st is the state object
\* as the get left it.
AfterGet(p, st, has, cachedData, why) ==
  IF call[p].op = "get"
  THEN /\ pc' = [pc EXCEPT ![p] = "done"]
       /\ res' = [res EXCEPT ![p] = [NoRes EXCEPT !.status = "resolved", !.has = has,
                                                   !.value = cachedData, !.why = why]]
       /\ state' = st
       /\ cnt' = cnt
  ELSE IF IsHit(has, cachedData)
  THEN /\ pc' = [pc EXCEPT ![p] = "done"]
       /\ res' = [res EXCEPT ![p] = [NoRes EXCEPT !.status = "resolved", !.why = "hit",
                                                   !.examples = cachedData.data[1].examples]]
       /\ state' = [st EXCEPT !.examples = cachedData.data[1].examples,
                              !.apiDataFetched = TRUE, !.examplesOf = Origin(p)]
       /\ cnt' = cnt
  ELSE /\ pc' = [pc EXCEPT ![p] = "fetch"]
       /\ res' = [res EXCEPT ![p] = [NoRes EXCEPT !.why = why]]
       /\ state' = st
       /\ cnt' = [cnt EXCEPT ![p].fetches = @ + 1]

\* request.onsuccess of get: no row, an expired or invalid row (deleteEntry is
\* called), or a row to return.  validateApiResponse clears state.error.
GetSuccess(p) ==
  /\ pc[p] = "get"
  /\ LET keyword == call[p].keyword IN
     IF keyword \notin DOMAIN store
     THEN /\ AfterGet(p, state, FALSE, NullPayload, "no row")
          /\ now' = now
     ELSE \E dateNow \in ClockReads :
          LET result == store[keyword]
              st == [state EXCEPT !.error = FALSE]
          IN /\ now' = dateNow
             /\ IF NeedsDelete(dateNow, result)
                THEN /\ pc' = [pc EXCEPT ![p] = "getDelete"]
                     /\ res' = [res EXCEPT ![p] =
                          [NoRes EXCEPT !.why = IF IsExpired(dateNow, result.timestamp)
                                                THEN "expired" ELSE "invalid"]]
                     /\ state' = st
                     /\ cnt' = [cnt EXCEPT ![p].deletes = @ + 1]
                ELSE AfterGet(p, st, TRUE, result.data, "valid")
  /\ UNCHANGED <<store, prefs, call, loc, ncalls, nprefs, putLog, overlap>>

\* deleteEntry's transaction runs; get resolves with null.
GetDelete(p) ==
  /\ pc[p] = "getDelete"
  /\ store' = Without(store, {call[p].keyword})
  /\ putLog' = [putLog EXCEPT !.more = TRUE]
  /\ AfterGet(p, state, FALSE, NullPayload, res[p].why)
  /\ UNCHANGED <<now, prefs, call, loc, ncalls, nprefs, overlap>>

\* -------------------------------------------- direct calls of the store
CallSave(p, keyword, data) ==
  /\ Free(p)
  /\ ncalls < MaxStoreCalls
  /\ ncalls' = ncalls + 1
  /\ call' = [call EXCEPT ![p] = [NoCall EXCEPT !.op = "save", !.keyword = keyword,
                                                 !.data = data]]
  /\ state' = [state EXCEPT !.error = FALSE]
  /\ SaveEnter(p, data, NoRes, NoCnt)
  /\ UNCHANGED <<store, now, prefs, nprefs, putLog>>

CallGet(p, keyword) ==
  /\ Free(p)
  /\ ncalls < MaxStoreCalls
  /\ ncalls' = ncalls + 1
  /\ call' = [call EXCEPT ![p] = [NoCall EXCEPT !.op = "get", !.keyword = keyword]]
  /\ pc' = [pc EXCEPT ![p] = "get"]
  /\ res' = [res EXCEPT ![p] = NoRes]
  /\ loc' = [loc EXCEPT ![p] = NoLoc]
  /\ cnt' = [cnt EXCEPT ![p] = [NoCnt EXCEPT !.reads = 1]]
  /\ UNCHANGED <<store, now, state, prefs, nprefs, putLog, overlap>>

\* ------------------------------------------------------------- environment
\* The vocabulary parsed from the page (onPageLoad) becomes state.vocab.
SetVocab(v) ==
  /\ state.vocab # v
  /\ \A q \in Procs : Free(q)
  /\ state' = [state EXCEPT !.vocab = v]
  /\ UNCHANGED <<store, now, prefs, pc, call, loc, res, cnt, ncalls, nprefs, putLog, overlap>>

\* toggleQuoteState up to its call of getImmersionKitData: nothing for a
\* blacklisted vocab, else state.exactSearch = !state.exactSearch and
\* state.apiDataFetched = false.
ToggleExact ==
  /\ \A q \in Procs : Free(q)
  /\ ~IsBlacklisted(prefs[state.vocab])
  /\ state' = [state EXCEPT !.exactSearch = ~state.exactSearch,
                            !.apiDataFetched = FALSE]
  /\ UNCHANGED <<store, now, prefs, pc, call, loc, res, cnt, ncalls, nprefs, putLog, overlap>>

\* chrome.storage.local changes: the preference record of a vocab is written.
SetPref(v, value) ==
  /\ nprefs < MaxPrefWrites
  /\ prefs[v] # value
  /\ nprefs' = nprefs + 1
  /\ prefs' = [prefs EXCEPT ![v] = value]
  /\ UNCHANGED <<store, now, state, pc, call, loc, res, cnt, ncalls, putLog, overlap>>

\* ---------------------------------------------------- getImmersionKitData
\* Both callers pass (state.vocab, state.exactSearch).  The function computes
\* searchVocab and calls chromeStorage.get(state.vocab).
CallLookup(p) ==
  /\ Free(p)
  /\ ncalls < MaxCalls
  /\ ncalls' = ncalls + 1
  /\ call' = [call EXCEPT ![p] =
       [NoCall EXCEPT !.op = "lookup", !.vocab = state.vocab,
                      !.exactSearch = state.exactSearch,
                      !.keyword = SearchKey(state.vocab, state.exactSearch)]]
  /\ pc' = [pc EXCEPT ![p] = "prefs"]
  /\ res' = [res EXCEPT ![p] = NoRes]
  /\ loc' = [loc EXCEPT ![p] = NoLoc]
  /\ cnt' = [cnt EXCEPT ![p] = NoCnt]
  /\ UNCHANGED <<store, now, state, prefs, nprefs, putLog, overlap>>

\* The key chromeStorage.get was called with: state.vocab, read at the call.
PrefKey(p) == call[p].vocab

\* The preference record arrives: a blacklisted term returns, any other
\* starts fetchData, which calls IndexedDBManager.open().
PrefsResult(p) ==
  /\ pc[p] = "prefs"
  /\ IF IsBlacklisted(prefs[PrefKey(p)])
     THEN /\ pc' = [pc EXCEPT ![p] = "done"]
          /\ res' = [res EXCEPT ![p] = [NoRes EXCEPT !.status = "resolved",
                                                      !.why = "blacklisted"]]
          /\ cnt' = cnt
     ELSE /\ pc' = [pc EXCEPT ![p] = "open"]
          /\ res' = res
          /\ cnt' = [cnt EXCEPT ![p].opens = @ + 1]
  /\ UNCHANGED <<store, now, state, prefs, call, loc, ncalls, nprefs, putLog, overlap>>

\* open resolves with the database; get(db, searchVocab) is called.
OpenSuccess(p) ==
  /\ pc[p] = "open"
  /\ pc' = [pc EXCEPT ![p] = "get"]
  /\ cnt' = [cnt EXCEPT ![p].reads = @ + 1]
  /\ UNCHANGED <<store, now, state, prefs, call, loc, res, ncalls, nprefs, putLog, overlap>>

\* What fetch(url) and response.json() can end in without a parsed body.
TransportFailures == {"network error", "HTTP error", "invalid JSON"}

\* Mutant: one more attempt is allowed (<= for <).
MayRetry_OneMore(attempt) == attempt <= maxRetries

\* attempt < maxRetries, after attempt++
MayRetry(attempt) == attempt < maxRetries

\* The outer catch of fetchData: state.error = true, the error is rethrown.
\* body is the response body the error message was built from.
Fail(p, st, error, reason, body) ==
  /\ pc' = [pc EXCEPT ![p] = "done"]
  /\ res' = [res EXCEPT ![p] = [NoRes EXCEPT !.status = "rejected", !.error = error,
                                              !.reason = reason, !.value = body]]
  /\ state' = [st EXCEPT !.error = TRUE]
  /\ loc' = [loc EXCEPT ![p] = NoLoc]

\* Mutant: a transport failure is followed by the backoff and a retry.
FetchFails_Retried(p, failure) ==
  /\ pc[p] = "fetch"
  /\ pc' = [pc EXCEPT ![p] = "backoff"]
  /\ UNCHANGED <<store, now, state, prefs, call, loc, res, cnt, ncalls, nprefs, putLog,
                 overlap>>

\* The remote call fails in transport: no retry.
FetchFails(p, failure) ==
  /\ pc[p] = "fetch"
  /\ Fail(p, state, failure, "", NullPayload)
  /\ UNCHANGED <<store, now, prefs, call, cnt, ncalls, nprefs, putLog, overlap>>

\* A 2xx response with the parsed body jsonData.  A valid body is assigned to
\* state.examples and saved (a save that rejects is caught: state.error = true
\* and the lookup rejects); an invalid one is retried after the backoff, or
\* ends the lookup when the attempts are used up.
FetchResponse(p, jsonData) ==
  /\ pc[p] = "fetch"
  /\ LET validationError == validateApiResponse(jsonData)
         st == [state EXCEPT !.error = FALSE]
     IN IF validationError = NoError
        THEN /\ state' = [st EXCEPT !.examples = jsonData.data[1].examples,
                                    !.apiDataFetched = TRUE,
                                    !.error = SaveThrows(jsonData),
                                    !.examplesOf = Origin(p)]
             /\ call' = [call EXCEPT ![p].data = jsonData]
             /\ SaveEnter(p, jsonData,
                          [NoRes EXCEPT !.examples = jsonData.data[1].examples], cnt[p])
        ELSE /\ call' = call
             /\ overlap' = overlap
             /\ cnt' = cnt
             /\ IF MayRetry(loc[p].attempt + 1)
                THEN /\ pc' = [pc EXCEPT ![p] = "backoff"]
                     /\ loc' = [loc EXCEPT ![p].attempt = @ + 1]
                     /\ res' = [res EXCEPT ![p] = NoRes]
                     /\ state' = st
                ELSE Fail(p, st, "Invalid API response", validationError, jsonData)
  /\ UNCHANGED <<store, now, prefs, ncalls, nprefs, putLog>>

\* The 2 s timer fires: fetchData is called again and opens the store.
Backoff(p) ==
  /\ pc[p] = "backoff"
  /\ pc' = [pc EXCEPT ![p] = "open"]
  /\ cnt' = [cnt EXCEPT ![p].opens = @ + 1]
  /\ UNCHANGED <<store, now, state, prefs, call, loc, res, ncalls, nprefs, putLog, overlap>>

\* Direct calls of the store are made by one flow.
StoreProcs == {1}
\* Lookups are made one at a time.
LookupProcs == {1}

NextStore ==
  \/ \E p \in StoreProcs, k \in Keys, d \in Payloads : CallSave(p, k, d)
  \/ \E p \in StoreProcs, k \in Keys : CallGet(p, k)
  \/ \E p \in StoreProcs : GetSuccess(p)
  \/ \E p \in StoreProcs : GetDelete(p)
  \/ \E p \in StoreProcs : SaveGetAll(p)
  \/ \E p \in StoreProcs : SavePut(p)

\* The store under direct calls of save and get.
SpecStore == Init /\ [][NextStore]_vars

Next ==
  \/ \E p \in LookupProcs : CallLookup(p)
  \/ \E p \in LookupProcs : PrefsResult(p)
  \/ \E p \in LookupProcs : OpenSuccess(p)
  \/ \E p \in LookupProcs : GetSuccess(p)
  \/ \E p \in LookupProcs : GetDelete(p)
  \/ \E p \in LookupProcs, f \in TransportFailures : FetchFails(p, f)
  \/ \E p \in LookupProcs, d \in Payloads : FetchResponse(p, d)
  \/ \E p \in LookupProcs : Backoff(p)
  \/ \E p \in LookupProcs : SaveGetAll(p)
  \/ \E p \in LookupProcs : SavePut(p)
  \/ \E v \in Vocabs : SetVocab(v)
  \/ ToggleExact
  \/ \E v \in Vocabs, value \in PrefValues : SetPref(v, value)

\* The pipeline: lookups started by the page, over the store and the remote API.
Spec == Init /\ [][Next]_vars

\* ------------------------------------------------- store requests that fail
\* request.onerror of open: open rejects, the outer catch of fetchData runs.
OpenFails(p) ==
  /\ pc[p] = "open"
  /\ Fail(p, state, "IndexedDB error", "", NullPayload)
  /\ UNCHANGED <<store, now, prefs, call, cnt, ncalls, nprefs, putLog, overlap>>

\* request.onerror of get: get rejects; in a lookup the outer catch of
\* fetchData runs.
GetFails(p) ==
  /\ pc[p] = "get"
  /\ IF call[p].op = "get"
     THEN /\ pc' = [pc EXCEPT ![p] = "done"]
          /\ res' = [res EXCEPT ![p] = [NoRes EXCEPT !.status = "rejected",
                                                      !.error = "IndexedDB get error"]]
          /\ UNCHANGED <<state, loc>>
     ELSE Fail(p, state, "IndexedDB get error", "", NullPayload)
  /\ UNCHANGED <<store, now, prefs, call, cnt, ncalls, nprefs, putLog, overlap>>

\* addRequest.onerror of save: the transaction is aborted, so the store keeps
\* its rows, and save rejects; in a lookup the inner catch rethrows and the
\* outer catch of fetchData runs.
PutFails(p) ==
  /\ pc[p] = "savePut"
  /\ pc' = [pc EXCEPT ![p] = "done"]
  /\ res' = [res EXCEPT ![p] = [@ EXCEPT !.status = "rejected",
                                         !.error = "IndexedDB save error"]]
  /\ state' = IF call[p].op = "lookup" THEN [state EXCEPT !.error = TRUE] ELSE state
  /\ loc' = [loc EXCEPT ![p] = NoLoc]
  /\ UNCHANGED <<store, now, prefs, call, cnt, ncalls, nprefs, putLog, overlap>>

NextFault ==
  \/ Next
  \/ \E p \in LookupProcs : OpenFails(p)
  \/ \E p \in LookupProcs : GetFails(p)
  \/ \E p \in LookupProcs : PutFails(p)

\* The pipeline over a store whose open, get and put requests may fail.
SpecFault == Init /\ [][NextFault]_vars

\* request.onerror of deleteEntry: deleteEntry rejects inside the async
\* onsuccess handler of get, which nothing awaits; the promise of get is never
\* settled, and the row stays.
DeleteFails(p) ==
  /\ pc[p] = "getDelete"
  /\ pc' = [pc EXCEPT ![p] = "hung"]
  /\ UNCHANGED <<store, now, state, prefs, call, loc, res, cnt, ncalls, nprefs, putLog,
                 overlap>>

\* The cursor request of getAll fails.  onerror is attached to a second cursor
\* request of the same transaction: when that one is still pending it is
\* aborted with the transaction, getAll rejects and save rejects through its
\* catch (settles = TRUE); when it has completed, nothing settles the promise
\* of getAll (settles = FALSE).
GetAllFails(p, settles) ==
  /\ pc[p] = "saveGetAll"
  /\ IF settles
     THEN /\ pc' = [pc EXCEPT ![p] = "done"]
          /\ res' = [res EXCEPT ![p] = [@ EXCEPT !.status = "rejected", !.error = SaveError]]
          /\ state' = IF call[p].op = "lookup" THEN [state EXCEPT !.error = TRUE]
                      ELSE state
          /\ loc' = [loc EXCEPT ![p] = NoLoc]
     ELSE /\ pc' = [pc EXCEPT ![p] = "hung"]
          /\ UNCHANGED <<state, loc, res>>
  /\ UNCHANGED <<store, now, prefs, call, cnt, ncalls, nprefs, putLog, overlap>>

\* A request, a remote call or the backoff timer of flow p is answered.
Answer(p) ==
  \/ PrefsResult(p)
  \/ OpenSuccess(p) \/ OpenFails(p)
  \/ GetSuccess(p) \/ GetFails(p)
  \/ GetDelete(p) \/ DeleteFails(p)
  \/ \E f \in TransportFailures : FetchFails(p, f)
  \/ \E d \in Payloads : FetchResponse(p, d)
  \/ Backoff(p)
  \/ SaveGetAll(p) \/ \E settles \in BOOLEAN : GetAllFails(p, settles)
  \/ SavePut(p) \/ PutFails(p)

NextLive ==
  \/ \E p \in LookupProcs : CallLookup(p)
  \/ \E p \in LookupProcs : Answer(p)
  \/ \E v \in Vocabs : SetVocab(v)

\* Lookups over a store every request of which may fail, where every request,
\* remote call and timer is answered in the end.
SpecLive == Init /\ [][NextLive]_vars /\ \A p \in LookupProcs : WF_vars(Answer(p))

\* ------------------------------------------------------ concurrent lookups
\* onPageLoad is started by the load, popstate and hashchange events and by
\* the URL observer, and toggleQuoteState by clicks; none waits for a lookup
\* in flight, so the lookups of several flows interleave at their awaits.
NextConc ==
  \/ \E p \in Procs : CallLookup(p)
  \/ \E p \in Procs : PrefsResult(p)
  \/ \E p \in Procs : OpenSuccess(p)
  \/ \E p \in Procs : GetSuccess(p)
  \/ \E p \in Procs : GetDelete(p)
  \/ \E p \in Procs, f \in TransportFailures : FetchFails(p, f)
  \/ \E p \in Procs, d \in Payloads : FetchResponse(p, d)
  \/ \E p \in Procs : Backoff(p)
  \/ \E p \in Procs : SaveGetAll(p)
  \/ \E p \in Procs : SavePut(p)
  \/ \E v \in Vocabs : SetVocab(v)
  \/ ToggleExact

\* The pipeline with the lookups of NumProcs flows in flight at once.
SpecConc == Init /\ [][NextConc]_vars

\* -------------------------------------------------------- concurrent saves
\* Total number of calls of save in one behaviour of SpecSaves.
MaxSaves == 4
\* The payloads passed to save in SpecSaves: one that is stored, one that is not.
SavePayloads == {GoodPayload, BlankPayload}

\* A call of save by a flow while saves of other flows may be in progress.
ConcSave(p, keyword, data) ==
  /\ Free(p)
  /\ ncalls < MaxSaves
  /\ ncalls' = ncalls + 1
  /\ call' = [call EXCEPT ![p] = [NoCall EXCEPT !.op = "save", !.keyword = keyword,
                                                 !.data = data]]
  /\ state' = [state EXCEPT !.error = FALSE]
  /\ SaveEnter(p, data, NoRes, NoCnt)
  /\ UNCHANGED <<store, now, prefs, nprefs, putLog>>

NextSaves ==
  \/ \E p \in Procs, k \in Keys, d \in SavePayloads : ConcSave(p, k, d)
  \/ \E p \in Procs : SaveGetAll(p)
  \/ \E p \in Procs : SavePut(p)

\* Saves of NumProcs flows that interleave at getAll and at the put.
SpecSaves == Init /\ [][NextSaves]_vars

\* --------------------------------------------------- findExampleBySentence
\* A sentence repeated within a result and across results, with a result that
\* has no examples field in between.
RepeatPayload == ObjPayload(<<Result(NoCount, ArrayExamples(<<Ex2, Ex1, Ex3>>)),
                              Result(Count(<<1>>), NoExamples),
                              Result(NoCount, ArrayExamples(<<Ex1, Ex3, Ex2>>))>>)
\* A result whose examples field is a string, before one with examples.
MixedPayload == ObjPayload(<<Result(NoCount, StringExamples),
                             Result(NoCount, ArrayExamples(<<Ex1>>))>>)
FindPayloads == Payloads \cup {RepeatPayload, MixedPayload}

\* The sentences findExampleBySentence is called with, as strings of
\* characters; the sentence of an example of the model is one character.
Sentences == {<<"x">>, <<"y">>, <<"z">>}
Chars(sentence) == <<sentence>>
\* Largest occurrenceIndex of a direct call.
MaxIndex == 3

\* data.examples.filter((example) => example.sentence === sentence)
Filter(examples, sentence) ==
  SelectSeq(examples, LAMBDA example : Chars(example.sentence) = sentence)

\* Mutant: only the first result is searched.
RECURSIVE matchingExamples_FirstResult(_, _, _)
matchingExamples_FirstResult(data, k, sentence) ==
  IF k > Len(data) \/ k > 1 THEN <<>>
  ELSE IF data[k].examples.kind = "undefined"
       THEN matchingExamples_FirstResult(data, k + 1, sentence)
       ELSE Filter(data[k].examples.items, sentence)
            \o matchingExamples_FirstResult(data, k + 1, sentence)

\* matchingExamples after the results from the k-th on have been visited.
RECURSIVE matchingExamples(_, _, _)
matchingExamples(data, k, sentence) ==
  IF k > Len(data) THEN <<>>
  ELSE IF data[k].examples.kind = "undefined"
       THEN matchingExamples(data, k + 1, sentence)
       ELSE Filter(data[k].examples.items, sentence)
            \o matchingExamples(data, k + 1, sentence)

\* The loop throws a TypeError: jsonData.data is not iterable, or the examples
\* of a result are truthy and have no filter method.
FindThrows(jsonData) ==
  \/ ~jsonData.isArray
  \/ \E k \in 1..Len(jsonData.data) : jsonData.data[k].examples.kind = "string"

\* What findExampleBySentence returns for the parsed body jsonData.  An
\* occurrenceIndex of NaN compares false; a negative one reads
\* matchingExamples[occurrenceIndex], which is undefined.
findExampleBySentence(jsonData, sentence, occurrenceIndex) ==
  IF jsonData.kind = "null" \/ ~jsonData.hasData THEN NoExample
  ELSE IF FindThrows(jsonData) THEN NoExample
  ELSE LET m == matchingExamples(jsonData.data, 1, sentence)
       IN IF ~occurrenceIndex.nan /\ occurrenceIndex.val >= 0
             /\ Len(m) > occurrenceIndex.val
          THEN <<m[occurrenceIndex.val + 1]>>
          ELSE NoExample

\* A direct call of findExampleBySentence: fetch(searchUrl) is issued.
CallFind(p, sentence, i) ==
  /\ Free(p)
  /\ ncalls < MaxCalls
  /\ ncalls' = ncalls + 1
  /\ call' = [call EXCEPT ![p] = [NoCall EXCEPT !.op = "find", !.sentence = sentence,
                                                 !.index = Index(i)]]
  /\ pc' = [pc EXCEPT ![p] = "findFetch"]
  /\ res' = [res EXCEPT ![p] = NoRes]
  /\ loc' = [loc EXCEPT ![p] = NoLoc]
  /\ cnt' = [cnt EXCEPT ![p] = [NoCnt EXCEPT !.fetches = 1]]
  /\ UNCHANGED <<store, now, state, prefs, nprefs, putLog, overlap>>

\* onPageLoad from "Always do the normal search" on, with favoriteExample set:
\* getImmersionKitData(state.vocab, state.exactSearch) is called unless
\* state.apiDataFetched is set.  body is the response findExampleBySentence read.
PageSearch(p, body, favoriteExample) ==
  /\ IF ~state.apiDataFetched
     THEN /\ call' = [call EXCEPT ![p] =
                 [@ EXCEPT !.op = "lookup", !.vocab = state.vocab,
                           !.exactSearch = state.exactSearch,
                           !.keyword = SearchKey(state.vocab, state.exactSearch),
                           !.data = body, !.page = "lookup",
                           !.favoriteExample = favoriteExample]]
          /\ pc' = [pc EXCEPT ![p] = "prefs"]
     ELSE /\ call' = [call EXCEPT ![p] =
                 [@ EXCEPT !.data = body, !.page = "finished",
                           !.favoriteExample = favoriteExample]]
          /\ pc' = [pc EXCEPT ![p] = "done"]
  /\ res' = [res EXCEPT ![p] = [NoRes EXCEPT !.found = favoriteExample]]
  /\ UNCHANGED <<store, now, state, prefs, loc, ncalls, nprefs, putLog, overlap>>

\* findExampleBySentence returns found; jsonData is the body it has read.
FindReturns(p, jsonData, found) ==
  /\ cnt' = cnt
  /\ IF call[p].page = "none"
     THEN /\ pc' = [pc EXCEPT ![p] = "done"]
          /\ call' = [call EXCEPT ![p].data = jsonData]
          /\ res' = [res EXCEPT ![p] = [NoRes EXCEPT !.status = "resolved",
                                                      !.found = found]]
          /\ UNCHANGED <<store, now, state, prefs, loc, ncalls, nprefs, putLog, overlap>>
     ELSE PageSearch(p, jsonData, found)

\* fetch or response.json() throws, or the response is not ok: caught, null.
FindFails(p, failure) ==
  /\ pc[p] = "findFetch"
  /\ FindReturns(p, NullPayload, NoExample)

\* A 2xx response with the parsed body jsonData.
FindResponse(p, jsonData) ==
  /\ pc[p] = "findFetch"
  /\ FindReturns(p, jsonData,
                 findExampleBySentence(jsonData, call[p].sentence, call[p].index))

NextFind ==
  \/ \E p \in Procs, s \in Sentences, i \in 0..MaxIndex : CallFind(p, s, i)
  \/ \E p \in Procs, f \in TransportFailures : FindFails(p, f)
  \/ \E p \in Procs, d \in FindPayloads : FindResponse(p, d)

\* Calls of findExampleBySentence by themselves.
SpecFind == Init /\ [][NextFind]_vars

\* ------------------------------------------------------------- onPageLoad
\* onPageLoad outside a machine-translation frame: state.vocab is parsed from
\* the page and getStoredData(state.vocab) is called.
PageLoad(p, v) ==
  /\ Free(p)
  /\ ncalls < MaxCalls
  /\ ncalls' = ncalls + 1
  /\ state' = [state EXCEPT !.vocab = v]
  /\ call' = [call EXCEPT ![p] = [NoCall EXCEPT !.op = "page", !.vocab = v,
                                                 !.page = "stored"]]
  /\ pc' = [pc EXCEPT ![p] = "pagePrefs"]
  /\ res' = [res EXCEPT ![p] = NoRes]
  /\ loc' = [loc EXCEPT ![p] = NoLoc]
  /\ cnt' = [cnt EXCEPT ![p] = NoCnt]
  /\ UNCHANGED <<store, now, prefs, nprefs, putLog, overlap>>

\* getStoredData: null for a missing or empty record, else the record split
\* at its commas into sentence and parseInt(occurrenceIndex, 10).
HasStoredData(storedValue) == storedValue.present /\ Len(storedValue.value) > 0
StoredSentence(storedValue) == Split(storedValue.value)[1]
StoredIndex(storedValue) ==
  IF Len(Split(storedValue.value)) > 1
  THEN parseInt(Split(storedValue.value)[2])
  ELSE NoIndex

\* The record arrives.  With stored data findExampleBySentence is called and
\* issues its fetch; without, onPageLoad goes on to the normal search.
PagePrefs(p) ==
  /\ pc[p] = "pagePrefs"
  /\ LET storedValue == prefs[call[p].vocab] IN
     IF HasStoredData(storedValue)
     THEN /\ call' = [call EXCEPT ![p] =
                 [@ EXCEPT !.sentence = StoredSentence(storedValue),
                           !.index = StoredIndex(storedValue), !.page = "find"]]
          /\ pc' = [pc EXCEPT ![p] = "findFetch"]
          /\ cnt' = [cnt EXCEPT ![p].fetches = @ + 1]
          /\ UNCHANGED <<store, now, state, prefs, loc, res, ncalls, nprefs, putLog,
                         overlap>>
     ELSE /\ cnt' = cnt
          /\ PageSearch(p, NullPayload, NoExample)

\* state.examples after the favourite is put in front: the filter throws for
\* a state.examples that is no array, and the catch keeps the favourite alone.
WithFavorite(examples, favoriteExample) ==
  IF examples.kind = "array"
  THEN ArrayExamples(favoriteExample
         \o SelectSeq(examples.items,
                      LAMBDA ex : ex.sentence # favoriteExample[1].sentence))
  ELSE ArrayExamples(favoriteExample)

\* getImmersionKitData has settled and onPageLoad resumes: the favourite goes
\* in front of state.examples, or, after a failure, replaces them.
PageFinish(p) ==
  /\ pc[p] = "done"
  /\ call[p].page = "lookup"
  /\ call' = [call EXCEPT ![p].page = "finished"]
  /\ LET favoriteExample == call[p].favoriteExample IN
     state' = IF favoriteExample = NoExample THEN state
              ELSE IF res[p].status = "resolved" /\ state.examples.kind = "array"
              THEN [state EXCEPT !.examples = WithFavorite(@, favoriteExample),
                                 !.currentExampleIndex = 0]
              ELSE [state EXCEPT !.examples = ArrayExamples(favoriteExample),
                                 !.currentExampleIndex = 0,
                                 !.apiDataFetched = TRUE, !.examplesOf = Origin(p)]
  /\ UNCHANGED <<store, now, prefs, pc, loc, res, cnt, ncalls, nprefs, putLog, overlap>>

\* The response bodies findExampleBySentence receives in SpecPage.
PageFindPayloads == {GoodPayload, RepeatPayload, NullPayload}

NextPage ==
  \/ \E p \in LookupProcs, v \in Vocabs : PageLoad(p, v)
  \/ \E p \in LookupProcs : PagePrefs(p)
  \/ \E p \in LookupProcs, f \in TransportFailures : FindFails(p, f)
  \/ \E p \in LookupProcs, d \in PageFindPayloads : FindResponse(p, d)
  \/ \E p \in LookupProcs : PrefsResult(p)
  \/ \E p \in LookupProcs : OpenSuccess(p)
  \/ \E p \in LookupProcs : GetSuccess(p)
  \/ \E p \in LookupProcs : GetDelete(p)
  \/ \E p \in LookupProcs, f \in TransportFailures : FetchFails(p, f)
  \/ \E p \in LookupProcs, d \in Payloads : FetchResponse(p, d)
  \/ \E p \in LookupProcs : Backoff(p)
  \/ \E p \in LookupProcs : SaveGetAll(p)
  \/ \E p \in LookupProcs : SavePut(p)
  \/ \E p \in LookupProcs : PageFinish(p)
  \/ ToggleExact
  \/ \E v \in Vocabs, value \in PrefValues : SetPref(v, value)

\* Page loads, one at a time, over the pipeline, the store and the remote API.
SpecPage == Init /\ [][NextPage]_vars

\* ------------------------------------------------ toggles and arrow clicks
\* Total number of handlers started in one behaviour of SpecUI.
MaxHandlers == 3
\* A valid payload with one example.
OneExamplePayload == ObjPayload(<<Result(Count(<<1>>), ArrayExamples(<<Ex2>>))>>)
\* The response bodies of SpecUI: valid, with two examples and with one.
UIPayloads == {GoodPayload, OneExamplePayload}

\* A click on the quote icon: toggleQuoteState asks for the record of
\* state.vocab.
ToggleStart(p) ==
  /\ Free(p)
  /\ ncalls < MaxHandlers
  /\ ncalls' = ncalls + 1
  /\ call' = [call EXCEPT ![p] = [NoCall EXCEPT !.op = "toggle", !.vocab = state.vocab]]
  /\ pc' = [pc EXCEPT ![p] = "togglePrefs"]
  /\ res' = [res EXCEPT ![p] = NoRes]
  /\ loc' = [loc EXCEPT ![p] = NoLoc]
  /\ cnt' = [cnt EXCEPT ![p] = NoCnt]
  /\ UNCHANGED <<store, now, state, prefs, nprefs, putLog, overlap>>

\* The record arrives: toggleQuoteState returns for a blacklisted vocab, else
\* flips state.exactSearch and calls getStoredData(state.vocab).
ToggleRecord(p) ==
  /\ pc[p] = "togglePrefs"
  /\ IF IsBlacklisted(prefs[call[p].vocab])
     THEN /\ pc' = [pc EXCEPT ![p] = "done"]
          /\ res' = [res EXCEPT ![p] = [NoRes EXCEPT !.status = "resolved",
                                                      !.why = "blacklisted"]]
          /\ UNCHANGED <<state, call>>
     ELSE /\ pc' = [pc EXCEPT ![p] = "toggleStored"]
          /\ state' = [state EXCEPT !.exactSearch = ~state.exactSearch]
          /\ call' = [call EXCEPT ![p].vocab = state.vocab]
          /\ res' = res
  /\ UNCHANGED <<store, now, prefs, loc, cnt, ncalls, nprefs, putLog, overlap>>

\* The stored data arrive.  They have no exactState field, so
\* state.currentExampleIndex = 0; state.apiDataFetched = false, and
\* getImmersionKitData(state.vocab, state.exactSearch) is called.
ToggleStored(p) ==
  /\ pc[p] = "toggleStored"
  /\ state' = [state EXCEPT !.currentExampleIndex = 0, !.apiDataFetched = FALSE]
  /\ call' = [call EXCEPT ![p] =
       [NoCall EXCEPT !.op = "lookup", !.vocab = state.vocab,
                      !.exactSearch = state.exactSearch,
                      !.keyword = SearchKey(state.vocab, state.exactSearch)]]
  /\ pc' = [pc EXCEPT ![p] = "prefs"]
  /\ UNCHANGED <<store, now, prefs, loc, res, cnt, ncalls, nprefs, putLog, overlap>>

\* state.examples.length
Length(examples) == Len(examples.items)

\* renderImageAndPlayAudio comes to the creation of the arrow buttons.  Every
\* handler calls it, at its start and after the lookup, and it awaits the
\* preference record and the button container first, so that the buttons are
\* created from the state object as it is at some later time.
Render ==
  /\ ncalls > 0
  /\ state.examples.kind = "array"
  /\ state' = [state EXCEPT
       !.leftDisabled = (state.currentExampleIndex = 0),
       !.rightDisabled = (state.currentExampleIndex >= Length(state.examples) - 1)]
  /\ UNCHANGED <<store, now, prefs, pc, call, loc, res, cnt, ncalls, nprefs, putLog,
                 overlap>>

\* A click on the left arrow.
LeftArrow ==
  /\ ~state.leftDisabled
  /\ state.currentExampleIndex > 0
  /\ state' = [state EXCEPT !.currentExampleIndex = @ - 1,
                            !.currentlyPlayingAudio = FALSE]
  /\ UNCHANGED <<store, now, prefs, pc, call, loc, res, cnt, ncalls, nprefs, putLog,
                 overlap>>

\* A click on the right arrow, for state.examples an array.
RightArrow ==
  /\ ~state.rightDisabled
  /\ state.examples.kind = "array"
  /\ state.currentExampleIndex < Length(state.examples) - 1
  /\ state' = [state EXCEPT !.currentExampleIndex = @ + 1,
                            !.currentlyPlayingAudio = FALSE]
  /\ UNCHANGED <<store, now, prefs, pc, call, loc, res, cnt, ncalls, nprefs, putLog,
                 overlap>>

\* A page load of SpecUI: PageLoad within the bound MaxHandlers.
UIPageLoad(p, v) == ncalls < MaxHandlers /\ PageLoad(p, v)

NextUI ==
  \/ \E p \in Procs : ToggleStart(p)
  \/ \E p \in Procs : ToggleRecord(p)
  \/ \E p \in Procs : ToggleStored(p)
  \/ \E p \in Procs, v \in Vocabs : UIPageLoad(p, v)
  \/ \E p \in Procs : PagePrefs(p)
  \/ \E p \in Procs : PageFinish(p)
  \/ \E p \in Procs : PrefsResult(p)
  \/ \E p \in Procs : OpenSuccess(p)
  \/ \E p \in Procs : GetSuccess(p)
  \/ \E p \in Procs : GetDelete(p)
  \/ \E p \in Procs, d \in UIPayloads : FetchResponse(p, d)
  \/ \E p \in Procs : SaveGetAll(p)
  \/ \E p \in Procs : SavePut(p)
  \/ Render
  \/ LeftArrow
  \/ RightArrow

\* Clicks and page loads whose handlers interleave at their awaits.
SpecUI == Init /\ [][NextUI]_vars

\* -------------------------------------------------------------- playAudio
\* The state object after stopCurrentAudio.
stopCurrentAudio(st) ==
  IF st.currentAudio # NoSource
  THEN [st EXCEPT !.playing = @ \ {st.currentAudio}, !.currentAudio = NoSource]
  ELSE st

\* source.start(0, 0.05) and state.currentAudio = {context, source}.
StartSource(st, source) ==
  [st EXCEPT !.playing = @ \cup {source}, !.currentAudio = source]

\* playAudio(soundUrl) for the sound of the example shown, called by the
\* rendering (auto play), by a click on the image or on the play button: it
\* returns when state.currentlyPlayingAudio is set, else sets it, stops the
\* current audio and calls fetch(soundUrl).
PlayAudio(p) ==
  /\ Free(p)
  /\ ncalls < MaxHandlers
  /\ state.apiDataFetched /\ state.examples.kind = "array"
  /\ state.currentExampleIndex < Length(state.examples)
  /\ ~state.currentlyPlayingAudio
  /\ ncalls' = ncalls + 1
  /\ state' = stopCurrentAudio([state EXCEPT !.currentlyPlayingAudio = TRUE])
  /\ call' = [call EXCEPT ![p] = [NoCall EXCEPT !.op = "playAudio",
                                                 !.source = ncalls + 1]]
  /\ pc' = [pc EXCEPT ![p] = "audioFetch"]
  /\ res' = [res EXCEPT ![p] = NoRes]
  /\ loc' = [loc EXCEPT ![p] = NoLoc]
  /\ cnt' = [cnt EXCEPT ![p] = NoCnt]
  /\ UNCHANGED <<store, now, prefs, nprefs, putLog, overlap>>

\* fetch(soundUrl) resolves, then response.arrayBuffer().
AudioStep(p) ==
  /\ pc[p] \in {"audioFetch", "audioBuffer"}
  /\ pc' = [pc EXCEPT ![p] = IF pc[p] = "audioFetch" THEN "audioBuffer" ELSE "audioDecode"]
  /\ UNCHANGED <<store, now, state, prefs, call, loc, res, cnt, ncalls, nprefs, putLog,
                 overlap>>

\* decodeAudioData resolves: the source is started and becomes
\* state.currentAudio.
AudioStart(p) ==
  /\ pc[p] = "audioDecode"
  /\ state' = StartSource(state, call[p].source)
  /\ pc' = [pc EXCEPT ![p] = "done"]
  /\ res' = [res EXCEPT ![p] = [NoRes EXCEPT !.status = "resolved", !.why = "started"]]
  /\ UNCHANGED <<store, now, prefs, call, loc, cnt, ncalls, nprefs, putLog, overlap>>

\* fetch, arrayBuffer or decodeAudioData rejects: the catch clears
\* state.currentlyPlayingAudio.
AudioFails(p) ==
  /\ pc[p] \in {"audioFetch", "audioBuffer", "audioDecode"}
  /\ state' = [state EXCEPT !.currentlyPlayingAudio = FALSE]
  /\ pc' = [pc EXCEPT ![p] = "done"]
  /\ res' = [res EXCEPT ![p] = [NoRes EXCEPT !.status = "resolved", !.why = "caught"]]
  /\ UNCHANGED <<store, now, prefs, call, loc, cnt, ncalls, nprefs, putLog, overlap>>

\* A source plays to its end: source.onended clears
\* state.currentlyPlayingAudio.
AudioEnds(source) ==
  /\ source \in state.playing
  /\ state' = [state EXCEPT !.playing = @ \ {source}, !.currentlyPlayingAudio = FALSE]
  /\ UNCHANGED <<store, now, prefs, pc, call, loc, res, cnt, ncalls, nprefs, putLog,
                 overlap>>

NextAudio ==
  \/ \E p \in LookupProcs, v \in Vocabs : UIPageLoad(p, v)
  \/ \E p \in LookupProcs : PagePrefs(p)
  \/ \E p \in LookupProcs : PageFinish(p)
  \/ \E p \in LookupProcs : PrefsResult(p)
  \/ \E p \in LookupProcs : OpenSuccess(p)
  \/ \E p \in LookupProcs : GetSuccess(p)
  \/ \E p \in LookupProcs, d \in UIPayloads : FetchResponse(p, d)
  \/ \E p \in LookupProcs : SaveGetAll(p)
  \/ \E p \in LookupProcs : SavePut(p)
  \/ Render
  \/ LeftArrow
  \/ RightArrow
  \/ \E p \in Procs : PlayAudio(p)
  \/ \E p \in Procs : AudioStep(p)
  \/ \E p \in Procs : AudioStart(p)
  \/ \E p \in Procs : AudioFails(p)
  \/ \E source \in 1..MaxHandlers : AudioEnds(source)

\* Calls of playAudio, suspended at their awaits, among arrow clicks.
SpecAudio == Init /\ [][NextAudio]_vars

\* ------------------------------------------------- the validator by itself
\* Arguments of validateApiResponse: null, {}, and objects whose data holds no
\* result, one result or two, over every kind of examples and category_count.
ExampleLists == {NoExamples, StringExamples, ArrayExamples(<<>>), ArrayExamples(<<Ex1>>),
                 ArrayExamples(<<Ex1, Ex2>>)}
CountMaps == {NoCount, Count(<<>>), Count(<<0>>), Count(<<0, 0>>), Count(<<0, 1>>),
              Count(<<1>>)}
ValidatorInputs ==
  {NullPayload, EmptyObjPayload, NoResultsPayload}
  \cup {ObjPayload(<<Result(c, e)>>) : c \in CountMaps, e \in ExampleLists}
  \cup {ObjPayload(<<Result(c, e), Result(Count(<<1>>), ArrayExamples(<<Ex2>>))>>) :
          c \in CountMaps, e \in ExampleLists}

\* A call validateApiResponse(jsonData): state.error = false, and the reason
\* is returned.
Validate(p, jsonData) ==
  /\ call' = [call EXCEPT ![p] = [NoCall EXCEPT !.op = "validate", !.data = jsonData]]
  /\ res' = [res EXCEPT ![p] = [NoRes EXCEPT !.status = "resolved",
                                              !.reason = validateApiResponse(jsonData)]]
  /\ pc' = [pc EXCEPT ![p] = "done"]
  /\ state' = [state EXCEPT !.error = FALSE]
  /\ UNCHANGED <<store, now, prefs, loc, cnt, ncalls, nprefs, putLog, overlap>>

NextValidate == \E p \in Procs, jsonData \in ValidatorInputs : Validate(p, jsonData)

\* Calls of the validator on every kind of argument.
SpecValidate == Init /\ [][NextValidate]_vars

\* ===================================================================== claims
\* A direct call of save / get by flow p is starting in this step.
SaveStarts(p) == Free(p) /\ ncalls' = ncalls + 1 /\ call'[p].op = "save"
\* The get request of flow p's direct call succeeds in this step.
DirectGetSucceeds(p) == call[p].op = "get" /\ pc[p] = "get" /\ pc'[p] # "get"
\* deleteEntry of flow p's direct call of get completes in this step.
DirectGetDeletes(p) == call[p].op = "get" /\ pc[p] = "getDelete" /\ pc'[p] # "getDelete"

Settled(p, status) == pc[p] = "done" /\ res[p].status = status

\* C1: save called with a payload for which the validator returns a reason
\* leaves the store unchanged and resolves without an error; and every row of
\* the store was written from a payload that passed validation.
C1_InvalidSaveIsNoOp ==
  [][/\ \A p \in Procs :
          SaveStarts(p) /\ validateApiResponse(call'[p].data) # NoError
          => /\ store' = store
             /\ pc'[p] = "done"
             /\ res'[p].status = "resolved"
     /\ \A k \in DOMAIN store' : validateApiResponse(store'[k].source) = NoError]_vars

\* An invalid payload was passed to save while the store held a row.
C1_Witness ==
  \E p \in Procs :
    /\ call[p].op = "save"
    /\ validateApiResponse(call[p].data) # NoError
    /\ Settled(p, "resolved")
    /\ store # <<>>

\* C2 (as claimed): a get of a row that save wrote from a payload p passing
\* the validator, before the row expires, resolves with an entry whose
\* first-result examples are the slimmed examples of p, and deletes nothing.
C2_RoundTrip ==
  [][\A p \in Procs :
       /\ DirectGetSucceeds(p)
       /\ call[p].keyword \in DOMAIN store
       /\ validateApiResponse(store[call[p].keyword].source) = NoError
       /\ now' - store[call[p].keyword].timestamp < EXPIRATION_TIME
       => /\ pc'[p] = "done"
          /\ res'[p].status = "resolved"
          /\ res'[p].has
          /\ res'[p].value.data[1].examples
               = SlimExamples(store[call[p].keyword].source.data[1].examples)
          /\ store' = store]_vars

\* C3: get resolves with null when there is no row; when the stored payload
\* fails the validator it deletes exactly that row and resolves with null;
\* when the row is valid and not expired it resolves with the stored payload
\* and leaves the store as it is.
C3_GetContract ==
  [][\A p \in Procs :
       LET k == call[p].keyword IN
       /\ DirectGetSucceeds(p) /\ k \notin DOMAIN store
          => /\ pc'[p] = "done" /\ res'[p].status = "resolved" /\ ~res'[p].has
             /\ store' = store
       /\ DirectGetSucceeds(p) /\ k \in DOMAIN store
          /\ validateApiResponse(store[k].data) # NoError
          => pc'[p] = "getDelete" /\ store' = store
       /\ DirectGetDeletes(p)
          => /\ pc'[p] = "done" /\ res'[p].status = "resolved" /\ ~res'[p].has
             /\ store' = Without(store, {k})
       /\ DirectGetSucceeds(p) /\ k \in DOMAIN store
          /\ validateApiResponse(store[k].data) = NoError
          /\ now' - store[k].timestamp < EXPIRATION_TIME
          => /\ pc'[p] = "done" /\ res'[p].status = "resolved" /\ res'[p].has
             /\ res'[p].value = store[k].data
             /\ store' = store]_vars

\* A get found a row whose payload fails the validator, and deleted it, while
\* another row stayed.
C3_Witness ==
  \E p \in Procs :
    /\ call[p].op = "get"
    /\ Settled(p, "resolved")
    /\ res[p].why = "invalid"
    /\ call[p].keyword \notin DOMAIN store
    /\ store # <<>>

\* C4: a valid row of timestamp t is returned by every get that reads the clock
\* at t + EXPIRATION_TIME - 1 or earlier; a get that reads t + EXPIRATION_TIME
\* or later resolves with null and the row is gone; and a row leaves the store
\* only in the delete of a get of its keyword or in the eviction of a save.
C4_ExpiryBoundary ==
  [][/\ \A p \in Procs :
          LET k == call[p].keyword IN
          /\ DirectGetSucceeds(p) /\ k \in DOMAIN store
             /\ validateApiResponse(store[k].data) = NoError
             => IF now' <= store[k].timestamp + EXPIRATION_TIME - 1
                THEN pc'[p] = "done" /\ res'[p].has /\ res'[p].value = store[k].data
                     /\ store' = store
                ELSE pc'[p] = "getDelete" /\ res'[p].why = "expired"
          /\ DirectGetDeletes(p)
             => pc'[p] = "done" /\ ~res'[p].has /\ k \notin DOMAIN store'
     /\ \A k \in (DOMAIN store) \ (DOMAIN store') :
          \/ \E p \in Procs : pc[p] = "getDelete" /\ call[p].keyword = k
          \/ \E p \in Procs : pc[p] = "savePut" /\ k \in loc[p].toDelete]_vars

\* A get read the clock at exactly timestamp + EXPIRATION_TIME of the row that
\* the last put wrote, and the row is gone.
C4_Witness ==
  \E p \in Procs :
    /\ call[p].op = "get"
    /\ Settled(p, "resolved")
    /\ res[p].why = "expired"
    /\ call[p].keyword \notin DOMAIN store
    /\ Len(putLog.puts) > 0
    /\ putLog.puts[Len(putLog.puts)] = <<call[p].keyword, now - EXPIRATION_TIME>>

LogKeys == {putLog.puts[i][1] : i \in 1..Len(putLog.puts)}
LogTimes == {putLog.puts[i][2] : i \in 1..Len(putLog.puts)}
\* MAX_ENTRIES + 1 puts of distinct keywords and timestamps, and no other
\* change of the store, since the store was empty.
FilledByOneMore ==
  /\ ~putLog.more
  /\ Len(putLog.puts) = MAX_ENTRIES + 1
  /\ Cardinality(LogKeys) = MAX_ENTRIES + 1
  /\ Cardinality(LogTimes) = MAX_ENTRIES + 1

\* C5: with saves running one at a time the store never holds more than
\* MAX_ENTRIES rows; after MAX_ENTRIES + 1 puts of distinct keywords and
\* timestamps to an empty store it holds exactly MAX_ENTRIES rows, all but the
\* one of the smallest timestamp.
C5_Capacity ==
  /\ ~overlap => Cardinality(DOMAIN store) <= MAX_ENTRIES
  /\ ~overlap /\ FilledByOneMore /\ (\A p \in Procs : ~InSave(p))
     => /\ Cardinality(DOMAIN store) = MAX_ENTRIES
        /\ \E i \in 1..Len(putLog.puts) :
             /\ \A j \in 1..Len(putLog.puts) : putLog.puts[i][2] <= putLog.puts[j][2]
             /\ DOMAIN store = LogKeys \ {putLog.puts[i][1]}

C5_Witness == FilledByOneMore /\ ~overlap /\ Cardinality(DOMAIN store) = MAX_ENTRIES

\* Flow p is in a lookup that has not settled.
InLookup(p) == call[p].op = "lookup" /\ pc[p] # "done"
\* The remote call of flow p's lookup ends in this step.
FetchEnds(p) == call[p].op = "lookup" /\ pc[p] = "fetch" /\ pc'[p] # "fetch"
\* The get request of flow p's lookup succeeds in this step.
LookupGetSucceeds(p) == call[p].op = "lookup" /\ pc[p] = "get" /\ pc'[p] # "get"
ExhaustionError == "Invalid API response"

\* C6: a lookup never issues more than maxRetries remote calls; a response
\* that fails the validator is followed by the backoff while fewer than
\* maxRetries calls were made, and by the rejection of the lookup at the
\* maxRetries-th call: the error carries the validator's reason for that last
\* response, and the lookup has put nothing.  Nothing but a response that
\* passes the validator is saved.
C6_RetryBound ==
  [][\A p \in Procs :
       /\ cnt'[p].fetches <= maxRetries
       /\ FetchEnds(p) /\ pc'[p] = "backoff"
          => cnt[p].fetches < maxRetries /\ cnt'[p] = cnt[p] /\ store' = store
       /\ FetchEnds(p) /\ res'[p].error = ExhaustionError
          => /\ cnt[p].fetches = maxRetries
             /\ cnt'[p] = cnt[p] /\ cnt[p].puts = 0 /\ store' = store
             /\ pc'[p] = "done" /\ res'[p].status = "rejected"
             /\ res'[p].reason # NoError
             /\ res'[p].reason = validateApiResponse(res'[p].value)
       /\ FetchEnds(p) /\ pc'[p] = "saveGetAll"
          => validateApiResponse(call'[p].data) = NoError]_vars

\* A lookup was rejected after maxRetries responses that failed the validator.
C6_Witness ==
  \E p \in Procs :
    /\ Settled(p, "rejected")
    /\ res[p].error = ExhaustionError
    /\ res[p].reason = "Blank API"
    /\ cnt[p].fetches = maxRetries

\* C7: a remote call that ends in a transport failure rejects the lookup in
\* the same step, with no request issued and the store as it was; a settled
\* lookup issues nothing more; and every remote call of a lookup but the first
\* follows a response that failed the validator.
C7_NoRetryOnTransportFailure ==
  [][\A p \in Procs :
       /\ FetchEnds(p) /\ res'[p].error \in TransportFailures
          => /\ pc'[p] = "done" /\ res'[p].status = "rejected"
             /\ cnt'[p] = cnt[p] /\ cnt[p].puts = 0 /\ store' = store
       /\ pc[p] = "done" /\ pc'[p] = "done" => cnt'[p] = cnt[p]
       /\ InLookup(p)' => cnt'[p].fetches <= loc'[p].attempt + 1
       /\ FetchEnds(p) /\ pc'[p] = "backoff" => loc'[p].attempt = loc[p].attempt + 1]_vars

\* A lookup was rejected by a transport failure of its second remote call.
C7_Witness ==
  \E p \in Procs :
    /\ Settled(p, "rejected")
    /\ res[p].error \in TransportFailures
    /\ cnt[p].fetches = 2
    /\ cnt[p].puts = 0

\* C8 (as claimed): the response that passes the validator is assigned to
\* state.examples and a row is put under the search key; a later lookup of the
\* key that finds the row before it expires returns, field for field, the
\* examples of the response the row was written from, with no remote call.
C8_CachedAndReturned ==
  [][\A p \in Procs :
       LET k == call[p].keyword IN
       /\ FetchEnds(p) /\ pc'[p] = "saveGetAll"
          => /\ state'.examples = call'[p].data.data[1].examples
             /\ k = SearchKey(call[p].vocab, call[p].exactSearch)
       /\ call[p].op = "lookup" /\ pc[p] = "savePut" /\ pc'[p] = "done"
          => k \in DOMAIN store' /\ store'[k].source = call[p].data
       /\ LookupGetSucceeds(p) /\ k \in DOMAIN store
          /\ validateApiResponse(store[k].source) = NoError
          /\ now' - store[k].timestamp < EXPIRATION_TIME
          => /\ pc'[p] = "done" /\ res'[p].status = "resolved"
             /\ SlimExamples(state'.examples)
                  = SlimExamples(store[k].source.data[1].examples)
             /\ cnt'[p].fetches = 0]_vars

\* C9: a lookup whose get finds a row that is not expired and whose payload
\* passes the validator resolves in that step with the first result's examples
\* of the row, with no request issued and the store as it was; on the first
\* get of the lookup no remote call, put or delete was made at all.
C9_CacheHit ==
  [][\A p \in Procs :
       LET k == call[p].keyword IN
       LookupGetSucceeds(p) /\ k \in DOMAIN store
       /\ validateApiResponse(store[k].data) = NoError
       /\ now' - store[k].timestamp < EXPIRATION_TIME
       => /\ pc'[p] = "done" /\ res'[p].status = "resolved"
          /\ res'[p].examples = store[k].data.data[1].examples
          /\ state'.examples = store[k].data.data[1].examples
          /\ cnt'[p] = cnt[p] /\ store' = store
          /\ loc[p].attempt = 0
             => cnt'[p].fetches = 0 /\ cnt'[p].puts = 0 /\ cnt'[p].deletes = 0]_vars

\* A lookup in exact mode returned the examples of a row and made one open and
\* one read.
C9_Witness ==
  \E p \in Procs :
    /\ call[p].op = "lookup" /\ call[p].exactSearch
    /\ Settled(p, "resolved")
    /\ call[p].keyword \in DOMAIN store
    /\ res[p].examples = store[call[p].keyword].data.data[1].examples
    /\ Len(res[p].examples.items) = 2
    /\ cnt[p] = [NoCnt EXCEPT !.opens = 1, !.reads = 1]

\* The record is a comma-joined string whose second field parses to 2.
FlagIsTwo(record) ==
  /\ record.present
  /\ Len(Split(record.value)) >= 2
  /\ parseInt(Split(record.value)[2]) = [nan |-> FALSE, val |-> 2]

\* C10: when the preference record of the vocab is a comma-joined string whose
\* second field parses to 2, the lookup resolves as soon as the record is read,
\* in either mode, with no open, read, put, delete or remote call, and the
\* store and state.examples as they were.
C10_BlacklistShortCircuit ==
  [][\A p \in Procs :
       call[p].op = "lookup" /\ pc[p] = "prefs" /\ pc'[p] # "prefs"
       /\ FlagIsTwo(prefs[call[p].vocab])
       => /\ pc'[p] = "done" /\ res'[p].status = "resolved"
          /\ cnt'[p] = NoCnt
          /\ store' = store /\ state' = state]_vars

\* A lookup in exact mode of a vocab whose record is "x, 2a" resolved at once.
C10_Witness ==
  \E p \in Procs :
    /\ call[p].op = "lookup" /\ call[p].exactSearch
    /\ Settled(p, "resolved")
    /\ prefs[call[p].vocab] = Pref(<<"x", ",", " ", "2", "a">>)
    /\ cnt[p] = NoCnt

\* C11 (as claimed): when the lookup of a blacklisted vocab returns,
\* state.examples, which the caller reads as the result, holds no example.
C11_BlacklistedResultEmpty ==
  [][\A p \in Procs :
       call[p].op = "lookup" /\ pc[p] = "prefs" /\ pc'[p] = "done"
       /\ FlagIsTwo(prefs[call[p].vocab])
       => state'.examples.items = <<>>]_vars

\* C12 (as claimed): a lookup whose open or get request fails goes on to the
\* remote call as after a miss, and a lookup whose put fails still resolves;
\* in neither case is state.error set or the lookup rejected.
C12_StoreFailureIsMiss ==
  [][\A p \in Procs :
       /\ OpenFails(p) \/ GetFails(p)
          => pc'[p] = "fetch" /\ ~state'.error /\ res'[p].status # "rejected"
       /\ PutFails(p)
          => /\ pc'[p] = "done" /\ res'[p].status = "resolved" /\ ~state'.error
             /\ state'.examples = call[p].data.data[1].examples]_vars

\* The four checks of the validator, as the claim words them.
IsAbsent(d) == d.kind = "null"
LacksFields(d) == ~d.hasData \/ Len(d.data) = 0 \/ d.data[1].examples.kind = "undefined"
LacksCount(d) == ~d.data[1].category_count.present
AllZero(d) ==
  \A i \in 1..Len(d.data[1].category_count.counts) : d.data[1].category_count.counts[i] = 0

\* C13: the reason returned is that of the first failing check, in the order
\* absent payload, missing fields, missing category count, all counts zero;
\* null is returned exactly when the four checks pass.
C13_CheckOrder ==
  \A p \in Procs :
    call[p].op = "validate" =>
      LET d == call[p].data
          r == res[p].reason
      IN /\ IsAbsent(d) => r = "Not a valid JSON"
         /\ ~IsAbsent(d) /\ LacksFields(d) => r = "Missing required data fields"
         /\ ~IsAbsent(d) /\ ~LacksFields(d) /\ LacksCount(d) => r = "Missing category count"
         /\ ~IsAbsent(d) /\ ~LacksFields(d) /\ ~LacksCount(d) /\ AllZero(d) => r = "Blank API"
         /\ r = NoError
            <=> ~IsAbsent(d) /\ ~LacksFields(d) /\ ~LacksCount(d) /\ ~AllZero(d)

\* The validator was called on a payload that fails the second and the third
\* check, and on one that passes all four.
C13_Witness ==
  /\ call[1].op = "validate" /\ call[2].op = "validate"
  /\ ~IsAbsent(call[1].data) /\ LacksFields(call[1].data)
  /\ Len(call[1].data.data) > 0 /\ LacksCount(call[1].data)
  /\ res[1].reason = "Missing required data fields"
  /\ res[2].reason = NoError

\* C14 (as claimed): for the object without fields, {}, the validator returns
\* the reason it returns for an absent payload.
C14_EmptyObjectNotValid ==
  \A p \in Procs :
    call[p].op = "validate" /\ call[p].data = EmptyObjPayload
    => res[p].reason = "Not a valid JSON"

\* Flow p calls validateApiResponse in this step: get has found a row, or a
\* response body has arrived.
ValidatorRuns(p) ==
  \/ pc[p] = "get" /\ pc'[p] # "get" /\ call[p].keyword \in DOMAIN store
     /\ res'[p].status # "rejected"
  \/ pc[p] = "fetch" /\ pc'[p] # "fetch" /\ res'[p].error \notin TransportFailures

\* C15 (as claimed): a call of the validator leaves state.error as it is, so
\* the error recorded for an earlier lookup survives the validator calls of
\* later cache reads and lookups.
C15_ValidatorIsPure ==
  [][\A p \in Procs : ValidatorRuns(p) /\ state.error => state'.error]_vars

\* C16 (as claimed): the first result of every row of the store has a
\* non-empty list of examples.
C16_RowsHaveAnExample ==
  \A k \in DOMAIN store :
    /\ Len(store[k].data.data) > 0
    /\ store[k].data.data[1].examples.kind = "array"
    /\ Len(store[k].data.data[1].examples.items) >= 1

\* Flow p's lookup has received a response that passed the validator.
GotValid(p) == call[p].op = "lookup" /\ validateApiResponse(call[p].data) = NoError
\* Both flows looked up one key at the same time, each after a miss and a
\* remote call answered by a valid payload, and both have settled.
BothFetchedValid ==
  /\ \A p \in Procs : GotValid(p) /\ pc[p] = "done" /\ cnt[p].fetches >= 1
  /\ call[1].keyword = call[2].keyword

\* C17 (as claimed): a put of a lookup leaves the row of its key equal to the
\* slimmed payload it received, and rows change in no other step than a put or
\* the delete of a get; when two concurrent lookups of one key have both
\* received valid payloads and settled, both have resolved with examples and
\* the store holds the row of the key, which passes the validator and is the
\* slimmed payload of one of the two.
C17_DoubleWrite ==
  [][/\ \A p \in Procs :
          call[p].op = "lookup" /\ pc[p] = "savePut" /\ pc'[p] = "done"
          => /\ call[p].keyword \in DOMAIN store'
             /\ store'[call[p].keyword].data = SlimData(call[p].data)
     /\ store' # store => \E p \in Procs : pc[p] \in {"savePut", "getDelete"}
     /\ BothFetchedValid'
        => /\ \A p \in Procs :
                res'[p].status = "resolved" /\ res'[p].examples.kind = "array"
           /\ call'[1].keyword \in DOMAIN store'
           /\ validateApiResponse(store'[call'[1].keyword].data) = NoError
           /\ \E p \in Procs :
                store'[call'[1].keyword].data = SlimData(call'[p].data)]_vars

RECURSIVE AllExamples(_, _)
AllExamples(data, k) ==
  IF k > Len(data) THEN <<>> ELSE data[k].examples.items \o AllExamples(data, k + 1)

\* The examples of the response whose sentence is the given one.
SentenceMatches(jsonData, sentence) ==
  SelectSeq(AllExamples(jsonData.data, 1), LAMBDA e : <<e.sentence>> = sentence)

\* The response is a list of results, each with a list of examples or none.
IsResultList(jsonData) ==
  /\ jsonData.isArray
  /\ \A k \in 1..Len(jsonData.data) : jsonData.data[k].examples.kind # "string"

FindSettles(p) == call[p].op = "find" /\ pc[p] = "findFetch" /\ pc'[p] = "done"

PageReadsRecord(p) ==
  call[p].page # "none" /\ pc[p] \in {"pagePrefs", "prefs"} /\ pc'[p] # pc[p]

\* C20 (as claimed): when the preference record that the handling of a page
\* load reads carries flag 2, no remote call follows, neither the fetch of
\* findExampleBySentence nor the one of getImmersionKitData.
C20_BlacklistSuppressesAll ==
  [][\A p \in Procs :
       PageReadsRecord(p) /\ FlagIsTwo(prefs[call[p].vocab])
       => /\ cnt'[p].fetches = cnt[p].fetches
          /\ pc'[p] \notin {"findFetch", "open", "fetch"}]_vars


\* C21 (as claimed): a save that writes a key already present in a store of
\* exactly MAX_ENTRIES rows evicts nothing: the same keys remain, and every
\* other row is as it was.
C21_OverwriteEvictsNothing ==
  [][\A p \in Procs :
       /\ call[p].op = "save" /\ pc[p] = "savePut" /\ pc'[p] = "done"
       /\ call[p].keyword \in DOMAIN store
       /\ Cardinality(DOMAIN store) = MAX_ENTRIES
       => /\ DOMAIN store' = DOMAIN store
          /\ \A k \in DOMAIN store \ {call[p].keyword} : store'[k] = store[k]]_vars


\* C22 (as claimed): when every request, remote call and timer is answered,
\* with success or with an error, a lookup that has started settles.
C22_LookupCompletes == \A p \in Procs : InLookup(p) ~> ~InLookup(p)


\* C23 (as claimed): when the backoff of a lookup ends the next remote call is
\* issued in the same step, and a lookup that has not come to its save has
\* read the store at most once.
C23_RetryRestartsAtFetch ==
  [][\A p \in Procs :
       /\ call[p].op = "lookup" /\ pc[p] = "backoff" /\ pc'[p] # "backoff"
          => pc'[p] = "fetch" /\ cnt'[p].fetches = cnt[p].fetches + 1
       /\ InLookup(p)' /\ ~InSave(p)' => cnt'[p].reads <= 1]_vars


\* The last handler of every flow was a lookup, or ended in one, that has
\* resolved after assigning state.examples.
AllLookupsAssigned ==
  \A p \in Procs :
    /\ Free(p) /\ pc[p] = "done" /\ call[p].op = "lookup"
    /\ res[p].status = "resolved" /\ res[p].examples.kind = "array"

\* C24 (as claimed): once the lookups of all flows have completed, in whatever
\* order, state.examples are the examples a lookup assigned for the vocab and
\* mode requested last, which are state.vocab and state.exactSearch.
C24_StaleResultsDiscarded ==
  AllLookupsAssigned
  => state.examplesOf = [vocab |-> state.vocab, exactSearch |-> state.exactSearch]


\* C25 (as claimed): when onPageLoad has finished for a vocab that is not
\* blacklisted and state.apiDataFetched is set, so that examples are
\* rendered, state.examples were assigned by a lookup or a favourite search
\* for state.vocab.
C25_LookupBeforeRender ==
  \A p \in Procs :
    /\ call[p].page = "finished" /\ pc[p] = "done"
    /\ ~IsBlacklisted(prefs[state.vocab])
    /\ state.apiDataFetched
    => state.examplesOf.vocab = state.vocab


\* C26 (as claimed): whenever state.examples is a non-empty array,
\* state.currentExampleIndex is an index of it.
C26_IndexInRange ==
  state.examples.kind = "array" /\ Len(state.examples.items) > 0
  => /\ 0 <= state.currentExampleIndex
     /\ state.currentExampleIndex < Len(state.examples.items)


\* C27 (as claimed): at most one audio source that playAudio has started is
\* playing, and it is the one state.currentAudio refers to.
C27_OneAudioSource ==
  /\ Cardinality(state.playing) <= 1
  /\ state.playing # {} => state.playing = {state.currentAudio}
====
